---- MODULE Spec2Model ----
(***************************************************************************)
(* Model of backend/main.py, the "Magic Sketchbook" FastAPI service:       *)
(* analyze_image, consult_agent, generate_image_from_text and the two      *)
(* endpoints POST /chat-to-draw and POST /generate-image.                  *)
(*                                                                         *)
(* A Python str is a sequence of tokens; a token is one character, or a    *)
(* whole word where the inside of the word plays no part.  The marker      *)
(* "DRAW_PROMPT:" is spelled character by character, so that the search    *)
(* for it is a real substring search.                                      *)
(***************************************************************************)
EXTENDS Integers, Sequences, FiniteSets, TLC

----------------------------------------------------------------------------
(* Bounds of the model *)

\* slots for requests that are in flight at the same time
NumSlots == 2
\* requests received over a run
MaxRequests == 2
\* server processes (one event loop each)
NumWorkers == 2
\* response messages in one dialogue reply (reply parser)
MaxMessages == 2
\* segments in one response message's text (reply parser)
MaxSegs == 3

----------------------------------------------------------------------------
(* Python values *)

\* Python's None, where a str could stand
None == <<"<None>">>

\* f"{x}": None is formatted as the word None
PyStr(x) == IF x = None THEN <<"None">> ELSE x

\* bool(x) of an Optional[str]
Truthy(x) == x /= None /\ x /= <<>>

IsSpace(c) == c = " "

RECURSIVE LStrip(_)
LStrip(s) == IF s /= <<>> /\ IsSpace(Head(s)) THEN LStrip(Tail(s)) ELSE s

RECURSIVE RStrip(_)
RStrip(s) ==
    IF s /= <<>> /\ IsSpace(s[Len(s)]) THEN RStrip(SubSeq(s, 1, Len(s) - 1)) ELSE s

\* str.strip()
Strip(s) == RStrip(LStrip(s))

\* 0 when sep does not occur in s, else the index of its first occurrence
RECURSIVE FindFrom(_, _, _)
FindFrom(s, sep, i) ==
    IF i + Len(sep) - 1 > Len(s) THEN 0
    ELSE IF SubSeq(s, i, i + Len(sep) - 1) = sep THEN i
    ELSE FindFrom(s, sep, i + 1)

Find(s, sep) == FindFrom(s, sep, 1)

\* sep in s
Contains(s, sep) == Find(s, sep) /= 0

\* s.split(sep) with no maxsplit: cut at every occurrence, left to right
RECURSIVE SplitAll(_, _)
SplitAll(s, sep) ==
    LET i == Find(s, sep) IN
    IF i = 0 THEN <<s>>
    ELSE <<SubSeq(s, 1, i - 1)>> \o SplitAll(SubSeq(s, i + Len(sep), Len(s)), sep)

\* the split consult_agent applies to the reply
Split(s, sep) == SplitAll(s, sep)

----------------------------------------------------------------------------
(* Constants of main.py *)

LOCATION == <<"us-central1">>

Marker == <<"D", "R", "A", "W", "_", "P", "R", "O", "M", "P", "T", ":">>

NoImage == <<"no-image">>

NotConfiguredText == <<"agent-id-not-set">>

SafetyDetail == <<"cannot-generate-image-safety-filter">>

\* text of the response messages, each followed by a blank, then trimmed
RECURSIVE JoinMessages(_)
JoinMessages(msgs) ==
    IF msgs = <<>> THEN <<>>
    ELSE (IF Head(msgs) /= <<>> THEN Head(msgs)[1] \o <<" ">> ELSE <<>>)
         \o JoinMessages(Tail(msgs))

AgentReply(msgs) == Strip(JoinMessages(msgs))

\* lines 136-145: the reply's message and draw directive
ParseReply(agent_reply) ==
    IF Contains(agent_reply, Marker)
    THEN LET parts == Split(agent_reply, Marker) IN
         [text |-> Strip(parts[1]), draw_prompt |-> Strip(parts[2])]
    ELSE [text |-> agent_reply, draw_prompt |-> None]

\* lines 111-113: what is sent to the dialogue service
FullInput(user_text, image_description) ==
    IF Truthy(image_description) /\ image_description /= NoImage
    THEN <<"[sketch: ">> \o image_description \o <<"]", "\n">> \o user_text
    ELSE user_text

\* lines 102-107
SessionPath(project, location, agent, session) ==
    <<"projects/">> \o PyStr(project) \o <<"/locations/">> \o location
        \o <<"/agents/">> \o PyStr(agent) \o <<"/sessions/">> \o session

\* lines 115-121: the request sent to the dialogue service
DetectIntentRequest(session_path, full_input) == session_path \o <<"?ko:">> \o full_input

\* line 248
LegacyPrompt(desc, style_prompt) ==
    <<"A cute, 3D rendered digital art of ">> \o desc \o <<". Style: ">> \o style_prompt

\* lines 155-159
FinalPrompt(prompt) == <<"\n", " ">> \o prompt \o <<"\n", " ", "Pixar style ...", "\n", " ">>

\* line 181
BucketName(project_id) == PyStr(project_id) \o <<"-generated-images">>

\* uuid.uuid4() as text: the n-th identifier drawn, never one drawn before
Uuid4(n) == "uuid-" \o ToString(n)

\* a key that does not depend on the identifier drawn
DestinationBlobNameFixed(u) == <<"generated/", "image", ".png">>

\* line 182, u the text of uuid.uuid4()
DestinationBlobName(u) == <<"generated/", u, ".png">>

\* line 194
PublicUrl(bucket_name, blob_name) ==
    <<"https://storage.googleapis.com/">> \o bucket_name \o <<"/">> \o blob_name

----------------------------------------------------------------------------
(* Exceptions and HTTP responses *)

NoExc == [raised |-> FALSE, http |-> FALSE, status |-> 0, detail |-> None]

\* an exception raised by an SDK call or a local operation
UpstreamError(msg) == [raised |-> TRUE, http |-> FALSE, status |-> 0, detail |-> msg]

HTTPException(status_code, detail) ==
    [raised |-> TRUE, http |-> TRUE, status |-> status_code, detail |-> detail]

\* str(e)
StrOf(e) == IF e.http THEN <<ToString(e.status), ": ">> \o e.detail ELSE e.detail

NoResponse ==
    [status |-> 0, detail |-> None, agent_message |-> None, generated_image |-> None,
     draw_prompt |-> None, image |-> None, description |-> None]

ErrorResponse(status_code, detail) ==
    [NoResponse EXCEPT !.status = status_code, !.detail = detail]

\* lines 236-239: chat_to_draw catches every Exception, HTTPException included
ChatExcept(e) == ErrorResponse(500, StrOf(e))

\* generate_image_legacy has no try: the framework answers an HTTPException with its
\* status and detail, any other exception with a bare 500 "Internal Server Error"
Unhandled(e) ==
    IF e.http THEN ErrorResponse(e.status, e.detail)
    ELSE ErrorResponse(500, <<"Internal Server Error">>)

Raise(endpoint, e) == IF endpoint = "chat" THEN ChatExcept(e) ELSE Unhandled(e)

\* lines 223-234
ChatResponse(agent_result, image_url) ==
    [NoResponse EXCEPT !.status = 200, !.agent_message = agent_result.text,
                       !.generated_image = image_url,
                       !.draw_prompt = agent_result.draw_prompt]

\* line 250
LegacyResponse(url, desc) ==
    [NoResponse EXCEPT !.status = 200, !.image = url, !.description = desc]

\* the check of line 90 left out
AgentConfiguredAlways(agent_id) == TRUE

\* line 90
AgentConfigured(agent_id) == Truthy(agent_id)

\* the generate_image flag of line 230 ignored
ShouldGenerateAnyFlag(draw_prompt, generate_image) == Truthy(draw_prompt)

\* line 230
ShouldGenerate(draw_prompt, generate_image) == Truthy(draw_prompt) /\ generate_image

----------------------------------------------------------------------------
(* State *)

VARIABLES
    PROJECT_ID,   \* line 41, read once at process start
    AGENT_ID,     \* line 43, read once at process start
    req,          \* the requests in flight, one per slot
    loop,         \* per server process: the slot whose handler holds the event loop, or 0
    bucket,       \* the storage bucket {project}-generated-images
    disk,         \* the temporary files present on the local disk
    uuids,        \* how many identifiers uuid.uuid4() has handed out
    tmpfiles,     \* how many temporary files have been created
    handled       \* how many requests have been received

vars == <<PROJECT_ID, AGENT_ID, req, loop, bucket, disk, uuids, tmpfiles, handled>>

Slots == 1..NumSlots

Workers == 1..NumWorkers

\* the bytes of an uploaded file
Files == {<<>>, <<"sketch-png">>}

UserTexts == {<<"hello">>, <<"draw", " ", "a", " ", "cat">>}

SessionIds == {<<"default-session">>, <<"session-7">>}

StylePrompts == {<<"3D render">>, <<"watercolor">>}

\* response.text of the vision model, before it is trimmed
VisionTexts == {<<" ", "a cat", " ", "\n">>, <<" ">>}

\* the bytes of a generated image
ImageBytes == <<"generated-png">>

\* response_messages of a dialogue reply: each message's text list, <<>> for a
\* message that carries no text
Replies ==
    { <<>>,
      << <<<<"ok", " ", "!">>>> >>,
      << <<<<"i", " ", "draw", " ">> \o Marker \o <<" ", "a cat">>>> >>,
      << <<<<"sure", " ">> \o Marker>>, <<>> >>,
      << <<<<"a">> \o Marker \o <<"b">>>>, <<Marker \o <<"c">>>> >> }

Idle ==
    [pc |-> "idle", endpoint |-> "none", worker |-> 0, file |-> None,
     user_text |-> None, session_id |-> None, generate_image |-> FALSE,
     style_prompt |-> None, image_desc |-> None, agent_reply |-> None,
     agent_result |-> [text |-> None, draw_prompt |-> None], prompt |-> None,
     output_path |-> 0, blob |-> None, url |-> None, exc |-> NoExc,
     response |-> NoResponse, calls |-> <<>>]

\* one external call, as the request's log keeps it
Call(op, arg, result) == [op |-> op, arg |-> arg, result |-> result]

\* the results with which an external call fails
Failures == {"Error", "NotFound", "Conflict"}

Init ==
    /\ PROJECT_ID \in {None, <<"proj">>}
    /\ AGENT_ID \in {None, <<"agent-1">>}
    /\ req = [r \in Slots |-> Idle]
    /\ loop = [w \in Workers |-> 0]
    /\ bucket \in {[exists |-> e, objects |-> <<>>] : e \in BOOLEAN}
    /\ disk = {}
    /\ uuids = 0
    /\ tmpfiles = 0
    /\ handled = 0

----------------------------------------------------------------------------
(* Scheduling: the handlers are coroutines on their process's event loop.  A      *)
(* handler runs without interruption between two awaits that suspend; the SDK     *)
(* calls are synchronous, so only `await file.read()` can suspend.                *)

\* the handler in slot r is at `at` and its process's event loop is free or its own
Runs(r, at) == req[r].pc = at /\ loop[req[r].worker] \in {0, r}

\* the handler in slot r goes on as `next`, keeping the event loop until it returns
Goes(r, next) ==
    /\ req' = [req EXCEPT ![r] = next]
    /\ loop' = [loop EXCEPT ![req[r].worker] = IF next.pc = "done" THEN 0 ELSE r]

\* the handler ends with exception e leaving the endpoint function
Fails(r, rq, e) ==
    Goes(r, [rq EXCEPT !.pc = "done", !.exc = e, !.response = Raise(rq.endpoint, e)])

----------------------------------------------------------------------------
(* Requests *)

\* the framework starts a handler in a free slot
Accept(r, rq) ==
    /\ req[r].pc = "idle"
    /\ handled < MaxRequests
    /\ handled' = handled + 1
    /\ req' = [req EXCEPT ![r] = rq]
    /\ UNCHANGED <<PROJECT_ID, AGENT_ID, loop, bucket, disk, uuids, tmpfiles>>

\* POST /chat-to-draw, lines 205-215
ChatRequest(w, file, user_text, session_id, generate_image) ==
    [Idle EXCEPT !.pc = IF file /= None THEN "read" ELSE "consult",
                 !.endpoint = "chat", !.worker = w, !.file = file,
                 !.user_text = user_text, !.session_id = session_id,
                 !.generate_image = generate_image, !.image_desc = NoImage]

\* POST /generate-image, lines 242-245
LegacyRequest(w, file, style_prompt) ==
    [Idle EXCEPT !.pc = "read", !.endpoint = "legacy", !.worker = w, !.file = file,
                 !.style_prompt = style_prompt]

\* one request at a time, every form value
Receive(r) ==
    /\ \A s \in Slots : req[s].pc = "idle"
    /\ \E w \in Workers :
          \/ \E file \in Files \cup {None}, user_text \in UserTexts,
                session_id \in SessionIds, generate_image \in BOOLEAN :
                Accept(r, ChatRequest(w, file, user_text, session_id, generate_image))
          \/ \E file \in Files, style_prompt \in StylePrompts :
                Accept(r, LegacyRequest(w, file, style_prompt))

\* lines 216-217 and 246: await file.read(), where the handler may be suspended
ReadFile(r) ==
    /\ Runs(r, "read")
    /\ LET rq == req[r]
           image_bytes == rq.file
       IN req' = [req EXCEPT ![r].pc =
                     IF rq.endpoint = "chat" /\ Len(image_bytes) = 0
                     THEN "consult" ELSE "analyze"]
    /\ loop' = [loop EXCEPT ![req[r].worker] = 0]
    /\ UNCHANGED <<PROJECT_ID, AGENT_ID, bucket, disk, uuids, tmpfiles, handled>>

\* analyze_image, lines 63-81, and what its caller does with the description
AnalyzeImage(r) ==
    /\ Runs(r, "analyze")
    /\ LET rq == req[r] IN
       \/ \E text \in VisionTexts :
             LET description == Strip(text)
                 called == [rq EXCEPT !.calls = Append(@, Call("vision", rq.file, "ok"))]
             IN Goes(r, IF rq.endpoint = "chat"
                        THEN [called EXCEPT !.pc = "consult", !.image_desc = description]
                        ELSE [called EXCEPT !.pc = "synth", !.image_desc = description,
                                            !.prompt = LegacyPrompt(description,
                                                                    rq.style_prompt)])
       \/ Fails(r, [rq EXCEPT !.calls = Append(@, Call("vision", rq.file, "Error"))],
                UpstreamError(<<"vision-error">>))
    /\ UNCHANGED <<PROJECT_ID, AGENT_ID, bucket, disk, uuids, tmpfiles, handled>>

\* lines 102-107: the session path names the project; the dialogue service has no
\* session under projects/None, so detect_intent can answer only for a real project
SessionExists(project_id) == project_id /= None

\* lines 220-234 after consult_agent has returned agent_result
Consulted(r, rq, agent_result) ==
    LET got == [rq EXCEPT !.agent_result = agent_result] IN
    IF ShouldGenerate(agent_result.draw_prompt, rq.generate_image)
    THEN Goes(r, [got EXCEPT !.pc = "synth", !.prompt = agent_result.draw_prompt])
    ELSE Goes(r, [got EXCEPT !.pc = "done", !.response = ChatResponse(agent_result, None)])

\* consult_agent, lines 83-145, the dialogue service answering from `replies`,
\* and chat_to_draw as far as its next external call
ConsultAgent(r, replies) ==
    /\ Runs(r, "consult")
    /\ LET rq == req[r]
           request == DetectIntentRequest(SessionPath(PROJECT_ID, LOCATION, AGENT_ID,
                                                      rq.session_id),
                                          FullInput(rq.user_text, rq.image_desc))
           called(result) == [rq EXCEPT !.calls = Append(@, Call("dialogue", request,
                                                                  result))]
       IN IF ~AgentConfigured(AGENT_ID)
          THEN Consulted(r, rq, [text |-> NotConfiguredText, draw_prompt |-> None])
          ELSE \/ \E msgs \in replies :
                     LET agent_reply == AgentReply(msgs) IN
                     /\ SessionExists(PROJECT_ID)
                     /\ Consulted(r, [called("ok") EXCEPT !.agent_reply = agent_reply],
                                  ParseReply(agent_reply))
               \/ Fails(r, called("Error"), UpstreamError(<<"dialogue-error">>))
    /\ UNCHANGED <<PROJECT_ID, AGENT_ID, bucket, disk, uuids, tmpfiles, handled>>

Consult(r) == ConsultAgent(r, Replies)

\* generate_image_from_text, lines 152-170: the synthesis call
GenerateImages(r) ==
    /\ Runs(r, "synth")
    /\ LET rq == req[r]
           final_prompt == FinalPrompt(rq.prompt)
           called(result) == [rq EXCEPT !.calls = Append(@, Call("synthesis", final_prompt,
                                                                  result))]
       IN \/ Goes(r, [called("ok") EXCEPT !.pc = "stage"])
          \/ Fails(r, called("NoImages"), HTTPException(400, SafetyDetail))
          \/ Fails(r, called("Error"), UpstreamError(<<"synthesis-error">>))
    /\ UNCHANGED <<PROJECT_ID, AGENT_ID, bucket, disk, uuids, tmpfiles, handled>>

\* lines 175-184: the temporary file is created and the image saved into it, outside
\* the try; then the try is entered and the object key drawn
StageImage(r) ==
    /\ Runs(r, "stage")
    /\ LET rq == req[r]
           output_path == tmpfiles + 1
           staged == [rq EXCEPT !.output_path = output_path]
       IN /\ tmpfiles' = output_path
          /\ disk' = disk \cup {output_path}
          /\ \/ /\ uuids' = uuids + 1
                /\ Goes(r, [staged EXCEPT !.pc = "get_bucket",
                                          !.blob = DestinationBlobName(Uuid4(uuids'))])
             \/ /\ uuids' = uuids
                /\ Fails(r, staged, UpstreamError(<<"save-error">>))
    /\ UNCHANGED <<PROJECT_ID, AGENT_ID, bucket, handled>>

\* lines 185-188: get_bucket, and the bare except that sends every failure on to
\* create_bucket
GetBucket(r) ==
    /\ Runs(r, "get_bucket")
    /\ LET rq == req[r]
           bucket_name == BucketName(PROJECT_ID)
           called(result) == [rq EXCEPT !.calls = Append(@, Call("get_bucket", bucket_name,
                                                                  result))]
       IN \/ /\ bucket.exists
             /\ Goes(r, [called("ok") EXCEPT !.pc = "upload"])
          \/ /\ ~bucket.exists
             /\ Goes(r, [called("NotFound") EXCEPT !.pc = "create_bucket"])
          \/ Goes(r, [called("Error") EXCEPT !.pc = "create_bucket"])
    /\ UNCHANGED <<PROJECT_ID, AGENT_ID, bucket, disk, uuids, tmpfiles, handled>>

\* line 188: create_bucket, which the service refuses when the bucket exists
CreateBucket(r) ==
    /\ Runs(r, "create_bucket")
    /\ LET rq == req[r]
           bucket_name == BucketName(PROJECT_ID)
           called(result) == [rq EXCEPT !.calls = Append(@, Call("create_bucket",
                                                                  bucket_name, result))]
       IN \/ /\ ~bucket.exists
             /\ bucket' = [bucket EXCEPT !.exists = TRUE]
             /\ Goes(r, [called("ok") EXCEPT !.pc = "upload"])
          \/ /\ bucket.exists
             /\ UNCHANGED bucket
             /\ Goes(r, [called("Conflict") EXCEPT !.pc = "finally",
                                                   !.exc = UpstreamError(<<"conflict">>)])
          \/ /\ UNCHANGED bucket
             /\ Goes(r, [called("Error") EXCEPT !.pc = "finally",
                                                !.exc = UpstreamError(<<"storage-error">>)])
    /\ UNCHANGED <<PROJECT_ID, AGENT_ID, disk, uuids, tmpfiles, handled>>

\* an object of the bucket after a write of `bytes` under `key`: a write under a key
\* in use replaces the object and raises its generation
Written(objects, key, bytes) ==
    LET i == CHOOSE i \in 0..Len(objects) :
                 /\ i /= 0 => objects[i].key = key
                 /\ i = 0 => \A j \in 1..Len(objects) : objects[j].key /= key
    IN IF i = 0 THEN Append(objects, [key |-> key, bytes |-> bytes, generation |-> 1])
       ELSE [objects EXCEPT ![i] = [key |-> key, bytes |-> bytes,
                                    generation |-> @.generation + 1]]

\* lines 190-195: the upload and the URL that is returned
Upload(r) ==
    /\ Runs(r, "upload")
    /\ LET rq == req[r]
           bucket_name == BucketName(PROJECT_ID)
           called(result) == [rq EXCEPT !.calls = Append(@, Call("upload", rq.blob, result))]
       IN \/ /\ bucket' = [bucket EXCEPT !.objects = Written(@, rq.blob, ImageBytes)]
             /\ Goes(r, [called("ok") EXCEPT !.pc = "finally",
                                             !.url = PublicUrl(bucket_name, rq.blob)])
          \/ /\ UNCHANGED bucket
             /\ Goes(r, [called("Error") EXCEPT !.pc = "finally",
                                                !.exc = UpstreamError(<<"storage-error">>)])
    /\ UNCHANGED <<PROJECT_ID, AGENT_ID, disk, uuids, tmpfiles, handled>>

\* lines 197-198: the files left once output_path has been removed
Removed(files, output_path) == files \ {output_path}

\* lines 196-198, then the return or the exception reaches the endpoint:
\* lines 231-234 and 249-250
Cleanup(r) ==
    /\ Runs(r, "finally")
    /\ LET rq == req[r] IN
       /\ disk' = Removed(disk, rq.output_path)
       /\ IF rq.exc.raised THEN Fails(r, rq, rq.exc)
          ELSE Goes(r, [rq EXCEPT !.pc = "done",
                                  !.response =
                                      IF rq.endpoint = "chat"
                                      THEN ChatResponse(rq.agent_result, rq.url)
                                      ELSE LegacyResponse(rq.url, rq.image_desc)])
    /\ UNCHANGED <<PROJECT_ID, AGENT_ID, bucket, uuids, tmpfiles, handled>>

\* the response has been sent; the slot is free again
Release(r) ==
    /\ req[r].pc = "done"
    /\ req' = [req EXCEPT ![r] = Idle]
    /\ UNCHANGED <<PROJECT_ID, AGENT_ID, loop, bucket, disk, uuids, tmpfiles, handled>>

Next ==
    \E r \in Slots :
        \/ Receive(r)
        \/ ReadFile(r)
        \/ AnalyzeImage(r)
        \/ Consult(r)
        \/ GenerateImages(r)
        \/ StageImage(r)
        \/ GetBucket(r)
        \/ CreateBucket(r)
        \/ Upload(r)
        \/ Cleanup(r)
        \/ Release(r)

Spec == Init /\ [][Next]_vars

----------------------------------------------------------------------------
(* The reply parser of consult_agent, over every small dialogue reply *)

Segments == {<<" ">>, <<"a">>, Marker}

\* the texts made of at most n segments
RECURSIVE Texts(_)
Texts(n) ==
    IF n = 0 THEN {<<>>}
    ELSE Texts(n - 1) \cup {t \o s : t \in Texts(n - 1), s \in Segments}

\* a response message: no text, or a text list of one text
Messages == {<<>>} \cup {<<t>> : t \in Texts(MaxSegs)}

AnyReplies == UNION {[1..n -> Messages] : n \in 0..MaxMessages}

\* a chat turn of text only, with image generation switched off
ReceiveText(r) ==
    /\ \A s \in Slots : req[s].pc = "idle"
    /\ \E w \in Workers, user_text \in UserTexts :
          Accept(r, ChatRequest(w, None, user_text, <<"default-session">>, FALSE))

ConsultAny(r) == ConsultAgent(r, AnyReplies)

ParseNext ==
    \E r \in Slots :
        \/ ReceiveText(r)
        \/ ConsultAny(r)
        \/ Release(r)

ParseSpec == Init /\ [][ParseNext]_vars

----------------------------------------------------------------------------
(* Requests in flight at the same time, on one or several server processes *)

\* a request arrives while others may be in flight
ReceiveConcurrent(r) ==
    \E w \in Workers :
        \/ Accept(r, ChatRequest(w, None, <<"draw", " ", "a", " ", "cat">>,
                                 <<"default-session">>, TRUE))
        \/ Accept(r, LegacyRequest(w, <<"sketch-png">>, <<"3D render">>))

ConcNext ==
    \E r \in Slots :
        \/ ReceiveConcurrent(r)
        \/ ReadFile(r)
        \/ AnalyzeImage(r)
        \/ Consult(r)
        \/ GenerateImages(r)
        \/ StageImage(r)
        \/ GetBucket(r)
        \/ CreateBucket(r)
        \/ Upload(r)
        \/ Cleanup(r)
        \/ Release(r)

ConcSpec == Init /\ [][ConcNext]_vars

----------------------------------------------------------------------------
(* Properties *)

\* the external calls request rq has attempted
Ops(rq) == {rq.calls[i].op : i \in 1..Len(rq.calls)}

StorageOps == {"get_bucket", "create_bucket", "upload"}

\* rq has made the call op and it came back with result
Returned(rq, op, result) ==
    \E i \in 1..Len(rq.calls) : rq.calls[i].op = op /\ rq.calls[i].result = result

\* rq's last external call came back with result
LastResult(rq, op, result) ==
    /\ rq.calls /= <<>>
    /\ rq.calls[Len(rq.calls)].op = op
    /\ rq.calls[Len(rq.calls)].result = result

\* the reply the consultant parsed for rq held the marker
HeldMarker(rq) == rq.agent_reply /= None /\ Contains(rq.agent_reply, Marker)

\* C1: when GOOGLE_CLOUD_PROJECT is absent, no request attempts an external call
\* and every request ends with HTTP 500.
C1_NoProjectAlways500 ==
    PROJECT_ID = None =>
        \A r \in Slots :
            /\ req[r].calls = <<>>
            /\ req[r].pc = "done" => req[r].response.status = 500

\* C2: a request whose synthesis call returned zero images is answered with HTTP 400
\* and the safety-rejection message, on both endpoints.
C2_NoImagesIs400 ==
    \A r \in Slots :
        req[r].pc = "done" /\ LastResult(req[r], "synthesis", "NoImages") =>
            /\ req[r].response.status = 400
            /\ req[r].response.detail = SafetyDetail

\* a cut at the first occurrence of sep only: the text before it and the text after it
SplitFirst(s, sep) ==
    LET i == Find(s, sep) IN
    IF i = 0 THEN <<s>>
    ELSE <<SubSeq(s, 1, i - 1), SubSeq(s, i + Len(sep), Len(s))>>

\* C3: for a reply that holds the marker, the message is the trimmed text before the
\* first marker and the directive the trimmed text of everything after the first
\* marker, later markers included.
C3_SplitAtFirstMarkerOnly ==
    \A r \in Slots :
        req[r].pc = "done" /\ HeldMarker(req[r]) =>
            LET parts == SplitFirst(req[r].agent_reply, Marker) IN
            req[r].agent_result = [text |-> Strip(parts[1]), draw_prompt |-> Strip(parts[2])]

\* C4 as stated: in /chat-to-draw the synthesizer is invoked exactly when the
\* consultant returned a directive (a draw_prompt that is not None) and generate_image
\* is true; every other successful run invokes neither synthesizer nor publisher and
\* has generated_image = null; draw_prompt is null exactly when the reply held no marker.
C4_SynthesisIffDirective ==
    \A r \in Slots :
        LET rq == req[r]
            wanted == rq.agent_result.draw_prompt /= None /\ rq.generate_image
        IN rq.endpoint = "chat" /\ rq.pc = "done" =>
              /\ "synthesis" \in Ops(rq) <=> wanted
              /\ rq.response.status = 200 /\ ~wanted =>
                    /\ Ops(rq) \cap ({"synthesis"} \cup StorageOps) = {}
                    /\ rq.response.generated_image = None
              /\ rq.response.status = 200 =>
                    (rq.response.draw_prompt = None <=> ~HeldMarker(rq))

\* C4 amended: in /chat-to-draw the synthesizer is invoked exactly when the consultant
\* returned a non-empty directive and generate_image is true, and the publisher only
\* after a synthesis that returned an image; a successful run of that kind returns the
\* published URL, every other successful run invokes neither and has
\* generated_image = null; draw_prompt is null exactly when the reply held no marker.
C4_SynthesisIffNonEmptyDirective ==
    \A r \in Slots :
        LET rq == req[r]
            wanted == Truthy(rq.agent_result.draw_prompt) /\ rq.generate_image
        IN rq.endpoint = "chat" =>
              /\ "synthesis" \in Ops(rq) => wanted
              /\ Ops(rq) \cap StorageOps /= {} => Returned(rq, "synthesis", "ok")
              /\ rq.pc = "done" /\ wanted => "synthesis" \in Ops(rq)
              /\ rq.pc = "done" /\ rq.response.status = 200 /\ wanted =>
                    /\ Returned(rq, "upload", "ok")
                    /\ rq.response.generated_image = rq.url
                    /\ rq.url /= None
              /\ rq.pc = "done" /\ rq.response.status = 200 /\ ~wanted =>
                    /\ Ops(rq) \cap ({"synthesis"} \cup StorageOps) = {}
                    /\ rq.response.generated_image = None
              /\ rq.pc = "done" /\ rq.response.status = 200 =>
                    (rq.response.draw_prompt = None <=> ~HeldMarker(rq))

\* a chat turn that was answered with a generated image
C4_Witness ==
    \E r \in Slots :
        /\ req[r].endpoint = "chat" /\ req[r].pc = "done"
        /\ req[r].response.status = 200
        /\ req[r].response.generated_image /= None
        /\ req[r].generate_image

\* C5: a request that ended on a failed vision, dialogue, synthesis or storage call is
\* answered with HTTP 500 whose detail is the text of that failure, on both endpoints.
C5_UpstreamFailureIs500WithRawText ==
    \A r \in Slots :
        LET rq == req[r] IN
        rq.pc = "done" /\ rq.exc.raised /\ ~rq.exc.http /\ rq.exc.detail /= <<"save-error">> =>
            rq.response = ErrorResponse(500, rq.exc.detail)

\* C6: with AGENT_ID absent a /chat-to-draw request calls neither the dialogue
\* service nor the synthesizer nor the publisher and stages no file; its answer,
\* whenever the request carried no image to describe, is 200, and every 200 answer
\* carries the fixed message, generated_image = null and draw_prompt = null.
C6_NoAgentNoDrawing ==
    AGENT_ID = None =>
        \A r \in Slots :
            LET rq == req[r] IN
            rq.endpoint = "chat" =>
                /\ Ops(rq) \subseteq {"vision"}
                /\ rq.output_path = 0
                /\ rq.pc = "done" /\ ~Returned(rq, "vision", "Error") =>
                      rq.response.status = 200
                /\ rq.pc = "done" /\ rq.response.status = 200 =>
                      rq.response = ChatResponse([text |-> NotConfiguredText,
                                                  draw_prompt |-> None], None)

\* a chat turn asking for an image, answered while AGENT_ID is absent
C6_Witness ==
    /\ AGENT_ID = None
    /\ \E r \in Slots :
          /\ req[r].endpoint = "chat" /\ req[r].pc = "done"
          /\ req[r].generate_image
          /\ req[r].session_id = <<"session-7">>
          /\ req[r].response.status = 200

\* the object key generated/{uuid}.png of one of the identifiers drawn so far
IsGeneratedKey(key) ==
    \E n \in 1..uuids : key = <<"generated/", "uuid-" \o ToString(n), ".png">>

\* the URL of key in the bucket {project}-generated-images
UrlOf(key) ==
    <<"https://storage.googleapis.com/">>
        \o (IF PROJECT_ID = None THEN <<"None">> ELSE PROJECT_ID)
        \o <<"-generated-images", "/">> \o key

\* every object is in its first generation under a key generated/{uuid}.png, and a
\* request that holds a URL holds the URL of the key its bytes were written under
PublishedOnce ==
    /\ \A i \in 1..Len(bucket.objects) :
          /\ bucket.objects[i].generation = 1
          /\ IsGeneratedKey(bucket.objects[i].key)
          /\ \A j \in 1..Len(bucket.objects) :
                bucket.objects[j].key = bucket.objects[i].key => j = i
    /\ \A r \in Slots :
          req[r].url /= None =>
              /\ req[r].url = UrlOf(req[r].blob)
              /\ \E i \in 1..Len(bucket.objects) :
                    /\ bucket.objects[i].key = req[r].blob
                    /\ bucket.objects[i].bytes = ImageBytes

\* a step that changes the bucket's objects adds one object and leaves the others alone
PublishAdds ==
    bucket'.objects /= bucket.objects =>
        /\ Len(bucket'.objects) = Len(bucket.objects) + 1
        /\ SubSeq(bucket'.objects, 1, Len(bucket.objects)) = bucket.objects

\* C7: every publish writes under a fresh key generated/{uuid}.png of the bucket
\* {project}-generated-images, overwrites nothing, and returns the URL of that key.
C7_FreshKeyEveryPublish == []PublishedOnce /\ [][PublishAdds]_vars

\* two publishes have succeeded and the second has its URL
C7_Witness ==
    /\ Len(bucket.objects) = 2
    /\ \E r \in Slots :
          /\ req[r].pc = "done" /\ req[r].response.status = 200
          /\ req[r].url /= None
          /\ req[r].blob = bucket.objects[2].key

\* C8: once generate_image_from_text has exited, the temporary file it created is gone.
C8_TempFileRemoved ==
    \A r \in Slots :
        req[r].pc = "done" /\ req[r].output_path /= 0 => req[r].output_path \notin disk

\* C9: a request makes no further external call after one of its external calls has
\* failed (a bucket lookup answering "not found" is not counted as a failure here).
C9_NoCallAfterFailure ==
    \A r \in Slots :
        \A i \in 1..Len(req[r].calls) :
            req[r].calls[i].result \in Failures \ {"NotFound"} => i = Len(req[r].calls)

\* C10: no request whose bucket lookup answered "not found" has its bucket creation
\* refused because the bucket exists, i.e. because another request created it in between.
C10_NoCreateConflictAfterNotFound ==
    \A r \in Slots :
        \A i \in 1..Len(req[r].calls) :
            /\ req[r].calls[i].op = "get_bucket"
            /\ req[r].calls[i].result = "NotFound"
            /\ i < Len(req[r].calls)
            => req[r].calls[i + 1].result /= "Conflict"

====
